---- MODULE Spec2Model ----
(***************************************************************************)
(* The refresh coordinator of the poker mini-app front end (main.js):      *)
(* loadDataWithCache / loadData / startAutoRefresh, the two render         *)
(* functions and the localStorage cache slot.                              *)
(*                                                                         *)
(* JavaScript runs one macrotask at a time and drains the microtask queue  *)
(* after it.  Every action below is one continuation of an async function, *)
(* cut at its await points.  An await of an already settled promise        *)
(* (await displayBanners(..), the caller's await of a finished async call) *)
(* resumes in a microtask: while such a continuation is runnable no        *)
(* network event, timer or user event is processed (Settled).              *)
(***************************************************************************)
EXTENDS Integers, Sequences, FiniteSets, TLC

\* ------------------------------------------------------------------ bounds
\* page loads of the same browser profile (the cache slot survives a reload)
MaxLoads == 2
\* interval callbacks fired per page load
MaxTicks == 2
\* clicks on a join button per page load
MaxJoins == 3

\* ------------------------------------------------------- program constants
CACHE_DURATION == 5 * 60 * 1000
DEFAULT_MAX_PLAYERS == 10

\* ------------------------------------------------------------ server data
\* the record of the spec's example, a record whose status field is absent
Room1 == [id |-> 1, room_name |-> "Table A", status |-> "open", current_players |-> 3]
Room2 == [id |-> 2, room_name |-> "Table B", blinds |-> "1/2"]
RoomLists == { <<>>, <<Room1>>, <<Room1, Room2>> }
Banner1 == [id |-> 1, title |-> "Promo", link_url |-> "https://t.me/x"]
Banner2 == [id |-> 2, image_url |-> "/static/b2.gif"]
BannerLists == { <<>>, <<Banner1, Banner2>> }

\* what a fetch() can do: resolve with res.ok, resolve with !res.ok, reject
FetchOutcomes == {"ok", "notok", "neterr"}
\* res.json() resolves with one of the lists above, or rejects

\* sampled clock values (Date.now()), around the expiry of an entry written at 0
\* or at CACHE_DURATION - 1
Times == {0, CACHE_DURATION - 1, CACHE_DURATION}

\* ----------------------------------------------------------------- state
VARIABLES
    now,              \* Date.now()
    localStorage,     \* the slot 'poker_data_cache': NoCache, an entry, or
                      \* a value that is not an entry (present is FALSE)
    loads,            \* page loads so far
    mainPc,           \* position of the DOMContentLoaded handler
    save,             \* the cache-saving block: its two requests, its banners
    ld,               \* the loadData() call of this page load
    timerOn,          \* setInterval has been called
    nTicks,           \* interval callbacks fired so far
    ticks,            \* the interval callbacks: id -> position or outcome
    roomList,         \* children of #room-list
    bannerContainer,  \* children of #banner-container
    loading,          \* #loadingIndicator is displayed
    swiperInstance,   \* the module variable: FALSE is null
    swiperLog,        \* history: <<constructions, update() calls>>
    roomsSrc,         \* history: what wrote #room-list last
    bannersSrc,       \* history: what wrote #banner-container last
    rendered,         \* history: the argument of the last renderRooms call
    lastResolved,     \* history: the rooms fetch that resolved last
    last,             \* history: the continuation that ran last
    telegram,         \* initTelegram: "none" (tg is null), "anon" (tg set,
                      \* currentUser null) or "user" (currentUser set)
    posts,            \* the joinGame calls: call -> room, url, tracking POST
    joinLog,          \* history: the links opened and the POSTs issued
    search,           \* window.location.search, a string of characters
    readyState,       \* document.readyState
    hasBody,          \* document.body is not null
    scriptRan,        \* the URL-parameter script has run
    listeners,        \* its DOMContentLoaded listeners: addParams, observe
    observing,        \* observer.observe(document.body, ..) has been called
    doc,              \* the nodes under document.body, in document order
    origDoc,          \* history: the nodes as they were inserted
    records,          \* mutation records not yet delivered: added nodes
    visited           \* history: the nodes either routine has looked at

envVars == <<now, localStorage, loads>>
domVars == <<roomList, bannerContainer, loading, swiperInstance, swiperLog>>
bannerVars == <<bannerContainer, swiperInstance, swiperLog, bannersSrc>>
roomVars == <<roomList, roomsSrc, rendered>>
joinVars == <<telegram, posts, joinLog>>
linkVars == <<search, readyState, hasBody, scriptRan, listeners, observing,
              doc, origDoc, records, visited>>
vars == <<now, localStorage, loads, mainPc, save, ld, timerOn, nTicks, ticks,
          roomList, bannerContainer, loading, swiperInstance, swiperLog,
          roomsSrc, bannersSrc, rendered, lastResolved, last,
          telegram, posts, joinLog,
          search, readyState, hasBody, scriptRan, listeners, observing,
          doc, origDoc, records, visited>>

\* getItem returns null
NoCache == [present |-> FALSE, stored |-> "null"]
CacheEntry(banners, rooms, timestamp) ==
    [present |-> TRUE, data |-> [banners |-> banners, rooms |-> rooms],
     timestamp |-> timestamp]

\* stored values that are not {data: {banners, rooms}, timestamp: <number>}:
\* text JSON.parse rejects; the JSON text null; an object without a numeric
\* timestamp; an object with a timestamp whose data has no banners, no rooms
MalformedKinds == {"unparsable", "nonobject", "notimestamp", "nobanners", "norooms"}
Malformed(kind) ==
    CASE kind = "nobanners" ->
             [present |-> FALSE, stored |-> kind,
              data |-> [rooms |-> <<Room1>>], timestamp |-> 0]
      [] kind = "norooms" ->
             [present |-> FALSE, stored |-> kind,
              data |-> [banners |-> <<Banner1, Banner2>>], timestamp |-> 0]
      [] OTHER -> [present |-> FALSE, stored |-> kind]

Src(kind, n) == [kind |-> kind, n |-> n]
NoSrc == Src("none", 0)
Ev(op, n) == [op |-> op, n |-> n]

\* ------------------------------------------------------------- rendering
\* `${x || d}` for a text field and for a numeric field
TextOr(rec, f, d) == IF f \in DOMAIN rec /\ rec[f] # "" THEN rec[f] ELSE d
NumOr(rec, f, d) == IF f \in DOMAIN rec /\ rec[f] # 0 THEN rec[f] ELSE d
\* `${x}`: an absent field interpolates as "undefined"
Interp(rec, f) == IF f \in DOMAIN rec THEN rec[f] ELSE "undefined"

toUpperCase(s) ==
    CASE s = "open" -> "OPEN"
      [] s = "full" -> "FULL"
      [] OTHER -> s

\* room.status.toUpperCase() raises a TypeError when status is absent
StatusRaises(room) == "status" \notin DOMAIN room

RoomCard(room) ==
    [cls |-> "room-card",
     name |-> Interp(room, "room_name"),
     status |-> toUpperCase(room.status),
     blinds |-> TextOr(room, "blinds", "-"),
     min_buyin |-> TextOr(room, "min_buyin", "-"),
     players |-> <<NumOr(room, "current_players", 0),
                   NumOr(room, "max_players", DEFAULT_MAX_PLAYERS)>>,
     game_time |-> TextOr(room, "game_time", "-")]

EmptyCard == [cls |-> "welcome-card", text |-> "no active rooms"]
ErrorCard == [cls |-> "welcome-card", text |-> "cannot load data"]

\* index of the first record whose card cannot be built, Len + 1 if none
FirstRaising(rooms) ==
    IF \E i \in 1..Len(rooms) : StatusRaises(rooms[i])
    THEN CHOOSE i \in 1..Len(rooms) :
            /\ StatusRaises(rooms[i])
            /\ \A j \in 1..(i - 1) : ~StatusRaises(rooms[j])
    ELSE Len(rooms) + 1

\* renderRooms(rooms): the children of #room-list when it returns or raises
renderRooms(rooms) ==
    IF Len(rooms) = 0
    THEN [list |-> <<EmptyCard>>, raised |-> FALSE]
    ELSE [list |-> [i \in 1..(FirstRaising(rooms) - 1) |-> RoomCard(rooms[i])],
          raised |-> FirstRaising(rooms) <= Len(rooms)]

PlaceholderSlide == [cls |-> "banner-slide", placeholder |-> TRUE, contact |-> "@royalswap_kr"]
BannerSlide(b) ==
    [cls |-> "banner-slide", placeholder |-> FALSE,
     image |-> TextOr(b, "image_url", ""),
     title |-> TextOr(b, "title", "banner"),
     wrapper |-> IF "link_url" \in DOMAIN b /\ b.link_url # "" THEN "a" ELSE "div"]

displayBannersAppends(banners) ==
    [container |-> bannerContainer \o
                   (IF Len(banners) = 0 THEN <<PlaceholderSlide>>
                    ELSE [i \in 1..Len(banners) |-> BannerSlide(banners[i])]),
     instance |-> TRUE,
     log |-> IF swiperInstance THEN <<swiperLog[1], swiperLog[2] + 1>>
             ELSE <<swiperLog[1] + 1, swiperLog[2]>>]
displayBannersReconstructs(banners) ==
    [container |-> IF Len(banners) = 0 THEN <<PlaceholderSlide>>
                   ELSE [i \in 1..Len(banners) |-> BannerSlide(banners[i])],
     instance |-> TRUE,
     log |-> <<swiperLog[1] + 1, swiperLog[2]>>]
\* displayBanners(banners): the slides, then update() or new Swiper(..)
displayBanners(banners) ==
    [container |-> IF Len(banners) = 0 THEN <<PlaceholderSlide>>
                   ELSE [i \in 1..Len(banners) |-> BannerSlide(banners[i])],
     instance |-> TRUE,
     log |-> IF swiperInstance THEN <<swiperLog[1], swiperLog[2] + 1>>
             ELSE <<swiperLog[1] + 1, swiperLog[2]>>]

\* ------------------------------------------------------------ page state
\* a request is "none" (not issued), "pending", or settled as in FetchOutcomes
IdleLoad == [pc |-> "idle", b |-> "none", r |-> "none", banners |-> <<>>, rooms |-> <<>>]
NoSave == [b |-> "none", r |-> "none", banners |-> <<>>]

PageInit ==
    /\ mainPc = "start"
    /\ save = NoSave
    /\ ld = IdleLoad
    /\ timerOn = FALSE
    /\ nTicks = 0
    /\ ticks = [t \in 1..MaxTicks |-> "idle"]
    /\ roomList = <<>>
    /\ bannerContainer = <<>>
    /\ loading = FALSE
    /\ swiperInstance = FALSE
    /\ swiperLog = <<0, 0>>
    /\ roomsSrc = NoSrc
    /\ bannersSrc = NoSrc
    /\ rendered = <<>>
    /\ lastResolved = NoSrc

\* the URL-parameter script has run on a loaded page whose URL has no query
\* and whose body holds no link
NoListeners == [addParams |-> FALSE, observe |-> FALSE]
LinkIdle ==
    /\ search = <<>>
    /\ readyState = "complete"
    /\ hasBody = TRUE
    /\ scriptRan = TRUE
    /\ listeners = NoListeners
    /\ observing = TRUE
    /\ doc = <<>>
    /\ origDoc = <<>>
    /\ records = {}
    /\ visited = {}

Init ==
    /\ LinkIdle
    /\ telegram = "none"
    /\ posts = <<>>
    /\ joinLog = <<>>
    /\ now = 0
    /\ localStorage \in {NoCache} \cup {Malformed(k) : k \in MalformedKinds}
    /\ loads = 1
    /\ last = Ev("none", 0)
    /\ PageInit

\* A continuation that resumes in a microtask is runnable: the handler after
\* await displayBanners(..), or after an awaited async call has finished.
MicrotaskPending ==
    \/ mainPc \in {"cacheBanners", "cacheMalformed", "returned"}
    \/ ld.pc = "bannersShown"
    \/ mainPc = "awaitLoad" /\ ld.pc = "done"
Settled == ~MicrotaskPending

\* Date.now() - timestamp < CACHE_DURATION, on a present entry
CacheFreshInclusive ==
    /\ localStorage.present
    /\ now - localStorage.timestamp <= CACHE_DURATION
CacheFresh ==
    /\ localStorage.present
    /\ now - localStorage.timestamp < CACHE_DURATION
\* the same test passes on a value with a recent timestamp and incomplete data
MalformedFresh ==
    /\ ~localStorage.present
    /\ localStorage.stored \in {"nobanners", "norooms"}
    /\ now - localStorage.timestamp < CACHE_DURATION

\* loadData() up to its first await: showLoading(), both fetch() calls
LoadDataCall ==
    /\ ld' = [IdleLoad EXCEPT !.pc = "fetching", !.b = "pending", !.r = "pending"]
    /\ loading' = TRUE

\* the catch and finally blocks of loadData; b and r are what the two
\* requests had done when it ran
LoadDataCatchSilent(b, r) ==
    /\ UNCHANGED roomVars
    /\ loading' = FALSE
    /\ ld' = [IdleLoad EXCEPT !.pc = "done", !.b = b, !.r = r]
LoadDataCatchNoFinally(b, r) ==
    /\ roomList' = <<ErrorCard>>
    /\ roomsSrc' = Src("error", 0)
    /\ rendered' = rendered
    /\ loading' = loading
    /\ ld' = [IdleLoad EXCEPT !.pc = "done", !.b = b, !.r = r]
LoadDataCatch(b, r) ==
    /\ roomList' = <<ErrorCard>>
    /\ roomsSrc' = Src("error", 0)
    /\ rendered' = rendered
    /\ loading' = FALSE
    /\ ld' = [IdleLoad EXCEPT !.pc = "done", !.b = b, !.r = r]

\* ------------------------------------------------ loadDataWithCache, start
\* DOMContentLoaded with a fresh entry: displayBanners(data.banners), await
LoadCachedBanners ==
    /\ mainPc = "start"
    /\ CacheFresh
    /\ LET d == displayBanners(localStorage.data.banners) IN
        /\ bannerContainer' = d.container
        /\ swiperInstance' = d.instance
        /\ swiperLog' = d.log
    /\ bannersSrc' = Src("cache", 0)
    /\ mainPc' = "cacheBanners"
    /\ last' = Ev("LoadCachedBanners", 0)
    /\ UNCHANGED <<envVars, joinVars, linkVars, save, ld, timerOn, nTicks, ticks, loading, roomVars,
                   lastResolved>>

\* renderRooms(data.rooms); then loadData() is called and not awaited, and
\* loadDataWithCache returns.  When renderRooms raises, the catch of the
\* cache block logs it and control falls through to `await loadData()`.
LoadCachedRoomsAwaited ==
    /\ mainPc = "cacheBanners"
    /\ LET out == renderRooms(localStorage.data.rooms) IN
        /\ roomList' = out.list
        /\ mainPc' = "awaitLoad"
        /\ last' = Ev(IF out.raised THEN "LoadCachedRaise" ELSE "LoadCachedRooms", 0)
    /\ roomsSrc' = Src("cache", 0)
    /\ rendered' = localStorage.data.rooms
    /\ LoadDataCall
    /\ UNCHANGED <<envVars, joinVars, linkVars, save, timerOn, nTicks, ticks, bannerVars, lastResolved>>
LoadCachedRooms ==
    /\ mainPc = "cacheBanners"
    /\ LET out == renderRooms(localStorage.data.rooms) IN
        /\ roomList' = out.list
        /\ mainPc' = IF out.raised THEN "awaitLoad" ELSE "returned"
        /\ last' = Ev(IF out.raised THEN "LoadCachedRaise" ELSE "LoadCachedRooms", 0)
    /\ roomsSrc' = Src("cache", 0)
    /\ rendered' = localStorage.data.rooms
    /\ LoadDataCall
    /\ UNCHANGED <<envVars, joinVars, linkVars, save, timerOn, nTicks, ticks, bannerVars, lastResolved>>

\* DOMContentLoaded with no entry or a stale one: await loadData()
LoadUncached ==
    /\ mainPc = "start"
    /\ ~CacheFresh
    /\ ~MalformedFresh
    /\ LoadDataCall
    /\ mainPc' = "awaitLoad"
    /\ last' = Ev("LoadUncached", 0)
    /\ UNCHANGED <<envVars, joinVars, linkVars, save, timerOn, nTicks, ticks, bannerVars, roomVars,
                   lastResolved>>

\* DOMContentLoaded with a recent value whose data is incomplete:
\* displayBanners(data.banners) renders the stored banners, or, when they
\* are missing, empties the container and rejects at banners.length
LoadMalformedBanners ==
    /\ mainPc = "start"
    /\ MalformedFresh
    /\ IF localStorage.stored = "norooms"
       THEN LET d == displayBanners(localStorage.data.banners) IN
            /\ bannerContainer' = d.container
            /\ swiperInstance' = d.instance
            /\ swiperLog' = d.log
            /\ bannersSrc' = Src("cache", 0)
            /\ last' = Ev("LoadCachedBanners", 0)
       ELSE /\ bannerContainer' = <<>>
            /\ bannersSrc' = Src("malformed", 0)
            /\ last' = Ev("LoadMalformedRaise", 0)
            /\ UNCHANGED <<swiperInstance, swiperLog>>
    /\ mainPc' = "cacheMalformed"
    /\ UNCHANGED <<envVars, joinVars, linkVars, save, ld, timerOn, nTicks, ticks, loading, roomVars,
                   lastResolved>>

\* the await resumes: the rejection, or the TypeError of renderRooms(undefined)
\* at rooms.length after it emptied #room-list, reaches the catch of the
\* cache block, which logs it; then `await loadData()`
LoadMalformedCatchReturns ==
    /\ mainPc = "cacheMalformed"
    /\ IF localStorage.stored = "norooms"
       THEN /\ roomList' = <<>>
            /\ roomsSrc' = Src("malformed", 0)
            /\ rendered' = rendered
       ELSE UNCHANGED roomVars
    /\ mainPc' = "returned"
    /\ last' = Ev("LoadMalformedCatch", 0)
    /\ UNCHANGED <<envVars, joinVars, linkVars, save, ld, loading, timerOn, nTicks, ticks, bannerVars,
                   lastResolved>>
LoadMalformedCatch ==
    /\ mainPc = "cacheMalformed"
    /\ IF localStorage.stored = "norooms"
       THEN /\ roomList' = <<>>
            /\ roomsSrc' = Src("malformed", 0)
            /\ rendered' = rendered
       ELSE UNCHANGED roomVars
    /\ LoadDataCall
    /\ mainPc' = "awaitLoad"
    /\ last' = Ev("LoadMalformedCatch", 0)
    /\ UNCHANGED <<envVars, joinVars, linkVars, save, timerOn, nTicks, ticks, bannerVars, lastResolved>>

\* ---------------------------------------------------------------- loadData
\* One of the two fetch() promises settles.  Promise.all rejects with the
\* first rejection and resolves when both have resolved; then the ok check.
LoadDataResponse(which, outcome) ==
    /\ Settled
    /\ ld.pc = "fetching"
    /\ ld[which] = "pending"
    /\ LET b == IF which = "b" THEN outcome ELSE ld.b
           r == IF which = "r" THEN outcome ELSE ld.r
       IN  IF outcome = "neterr" \/ ("pending" \notin {b, r} /\ "notok" \in {b, r})
           THEN /\ LoadDataCatch(b, r)
                /\ last' = Ev("LoadDataFail", 0)
           ELSE /\ ld' = [ld EXCEPT !.b = b, !.r = r,
                                    !.pc = IF "pending" \in {b, r} THEN "fetching"
                                           ELSE "bjson"]
                /\ last' = Ev("LoadDataResponse", 0)
                /\ UNCHANGED <<roomVars, loading>>
    /\ lastResolved' = IF which = "r" /\ outcome = "ok" THEN Src("ld", 0) ELSE lastResolved
    /\ UNCHANGED <<envVars, joinVars, linkVars, mainPc, save, timerOn, nTicks, ticks, bannerVars>>

\* await bannersResponse.json()
LoadDataBannersJson ==
    /\ Settled
    /\ ld.pc = "bjson"
    /\ \/ \E banners \in BannerLists :
             /\ ld' = [ld EXCEPT !.pc = "rjson", !.banners = banners]
             /\ last' = Ev("LoadDataBannersJson", 0)
             /\ UNCHANGED <<roomVars, loading>>
       \/ /\ LoadDataCatch("ok", "ok")
          /\ last' = Ev("LoadDataFail", 0)
    /\ UNCHANGED <<envVars, joinVars, linkVars, mainPc, save, timerOn, nTicks, ticks, bannerVars,
                   lastResolved>>

\* await roomsResponse.json(), then displayBanners(banners) and its await
LoadDataRoomsJson ==
    /\ Settled
    /\ ld.pc = "rjson"
    /\ \/ \E rooms \in RoomLists :
             LET d == displayBanners(ld.banners) IN
             /\ ld' = [ld EXCEPT !.pc = "bannersShown", !.rooms = rooms]
             /\ bannerContainer' = d.container
             /\ swiperInstance' = d.instance
             /\ swiperLog' = d.log
             /\ bannersSrc' = Src("ld", 0)
             /\ last' = Ev("LoadDataBanners", 0)
             /\ UNCHANGED <<roomVars, loading>>
       \/ /\ LoadDataCatch("ok", "ok")
          /\ last' = Ev("LoadDataFail", 0)
          /\ UNCHANGED bannerVars
    /\ UNCHANGED <<envVars, joinVars, linkVars, mainPc, save, timerOn, nTicks, ticks, lastResolved>>

\* renderRooms(rooms); a raise is caught by loadData's catch; hideLoading()
LoadDataRooms ==
    /\ ld.pc = "bannersShown"
    /\ LET out == renderRooms(ld.rooms) IN
        IF out.raised
        THEN /\ roomList' = <<ErrorCard>>
             /\ roomsSrc' = Src("error", 0)
             /\ last' = Ev("LoadDataRaise", 0)
        ELSE /\ roomList' = out.list
             /\ roomsSrc' = Src("ld", 0)
             /\ last' = Ev("LoadDataRooms", 0)
    /\ rendered' = ld.rooms
    /\ loading' = FALSE
    /\ ld' = [IdleLoad EXCEPT !.pc = "done", !.b = "ok", !.r = "ok"]
    /\ UNCHANGED <<envVars, joinVars, linkVars, mainPc, save, timerOn, nTicks, ticks, bannerVars,
                   lastResolved>>

\* --------------------------------------- loadDataWithCache, the cache save
\* `await loadData()` has finished: fetch('/api/banners') of the save block
SaveFetchBanners ==
    /\ mainPc = "awaitLoad"
    /\ ld.pc = "done"
    /\ mainPc' = "saveB"
    /\ save' = [save EXCEPT !.b = "pending"]
    /\ last' = Ev("SaveFetchBanners", 0)
    /\ UNCHANGED <<envVars, joinVars, linkVars, ld, timerOn, nTicks, ticks, loading, bannerVars,
                   roomVars, lastResolved>>

\* the banners response arrives and fetch('/api/rooms') is issued; a
\* rejection is caught by the save block's catch and the function returns
SaveBannersResponse(outcome) ==
    /\ Settled
    /\ mainPc = "saveB"
    /\ IF outcome = "neterr"
       THEN /\ mainPc' = "returned"
            /\ save' = NoSave
            /\ last' = Ev("SaveFail", 0)
       ELSE /\ mainPc' = "saveR"
            /\ save' = [save EXCEPT !.b = outcome, !.r = "pending"]
            /\ last' = Ev("SaveFetchRooms", 0)
    /\ UNCHANGED <<envVars, joinVars, linkVars, ld, timerOn, nTicks, ticks, loading, bannerVars,
                   roomVars, lastResolved>>

\* the rooms response arrives: if (bannersResponse.ok && roomsResponse.ok)
SaveRoomsResponseIgnoresStatus(outcome) ==
    /\ Settled
    /\ mainPc = "saveR"
    /\ IF outcome # "neterr"
       THEN /\ mainPc' = "saveBJson"
            /\ save' = [save EXCEPT !.r = outcome]
            /\ last' = Ev("SaveRoomsResponse", 0)
       ELSE /\ mainPc' = "returned"
            /\ save' = NoSave
            /\ last' = Ev("SaveFail", 0)
    /\ UNCHANGED <<envVars, joinVars, linkVars, ld, timerOn, nTicks, ticks, loading, bannerVars,
                   roomVars, lastResolved>>
SaveRoomsResponse(outcome) ==
    /\ Settled
    /\ mainPc = "saveR"
    /\ IF outcome = "ok" /\ save.b = "ok"
       THEN /\ mainPc' = "saveBJson"
            /\ save' = [save EXCEPT !.r = outcome]
            /\ last' = Ev("SaveRoomsResponse", 0)
       ELSE /\ mainPc' = "returned"
            /\ save' = NoSave
            /\ last' = Ev("SaveFail", 0)
    /\ UNCHANGED <<envVars, joinVars, linkVars, ld, timerOn, nTicks, ticks, loading, bannerVars,
                   roomVars, lastResolved>>

\* await bannersResponse.json()
SaveBannersJson ==
    /\ Settled
    /\ mainPc = "saveBJson"
    /\ \/ \E banners \in BannerLists :
             /\ mainPc' = "saveRJson"
             /\ save' = [save EXCEPT !.banners = banners]
             /\ last' = Ev("SaveBannersJson", 0)
       \/ /\ mainPc' = "returned"
          /\ save' = NoSave
          /\ last' = Ev("SaveFail", 0)
    /\ UNCHANGED <<envVars, joinVars, linkVars, ld, timerOn, nTicks, ticks, loading, bannerVars,
                   roomVars, lastResolved>>

\* await roomsResponse.json(), then localStorage.setItem(CACHE_KEY, ..)
SaveRoomsJson ==
    /\ Settled
    /\ mainPc = "saveRJson"
    /\ \/ \E rooms \in RoomLists :
             /\ localStorage' = CacheEntry(save.banners, rooms, now)
             /\ last' = Ev("SaveCache", 0)
       \/ /\ last' = Ev("SaveFail", 0)
          /\ UNCHANGED localStorage
    /\ mainPc' = "returned"
    /\ save' = NoSave
    /\ UNCHANGED <<now, loads, joinVars, linkVars, ld, timerOn, nTicks, ticks, loading, bannerVars,
                   roomVars, lastResolved>>

\* ------------------------------------------------------- startAutoRefresh
\* `await loadDataWithCache()` has returned: setInterval(.., 3000)
StartAutoRefreshUnawaited ==
    /\ mainPc \in {"awaitLoad", "returned"}
    /\ mainPc' = "running"
    /\ timerOn' = TRUE
    /\ last' = Ev("StartAutoRefresh", 0)
    /\ UNCHANGED <<envVars, joinVars, linkVars, save, ld, nTicks, ticks, loading, bannerVars,
                   roomVars, lastResolved>>
StartAutoRefresh ==
    /\ mainPc = "returned"
    /\ mainPc' = "running"
    /\ timerOn' = TRUE
    /\ last' = Ev("StartAutoRefresh", 0)
    /\ UNCHANGED <<envVars, joinVars, linkVars, save, ld, nTicks, ticks, loading, bannerVars,
                   roomVars, lastResolved>>

\* the interval fires: the callback calls fetchJSON("/api/rooms") and awaits
TimerFireLoadsData ==
    /\ Settled
    /\ timerOn
    /\ nTicks < MaxTicks
    /\ nTicks' = nTicks + 1
    /\ ticks' = [ticks EXCEPT ![nTicks + 1] = "fetch"]
    /\ last' = Ev("TimerFire", nTicks + 1)
    /\ IF ld.pc \in {"idle", "done"}
       THEN LoadDataCall
       ELSE UNCHANGED <<ld, loading>>
    /\ UNCHANGED <<envVars, joinVars, linkVars, mainPc, save, timerOn, bannerVars,
                   roomVars, lastResolved>>
TimerFire ==
    /\ Settled
    /\ timerOn
    /\ nTicks < MaxTicks
    /\ nTicks' = nTicks + 1
    /\ ticks' = [ticks EXCEPT ![nTicks + 1] = "fetch"]
    /\ last' = Ev("TimerFire", nTicks + 1)
    /\ UNCHANGED <<envVars, joinVars, linkVars, mainPc, save, ld, timerOn, loading, bannerVars,
                   roomVars, lastResolved>>

\* fetchJSON: the response arrives; !res.ok or a rejection raises, and the
\* callback's catch logs it
TickResponseErrorCard(t, outcome) ==
    /\ Settled
    /\ ticks[t] = "fetch"
    /\ IF outcome = "ok"
       THEN /\ ticks' = [ticks EXCEPT ![t] = "json"]
            /\ last' = Ev("TickResponse", t)
            /\ UNCHANGED roomVars
       ELSE /\ ticks' = [ticks EXCEPT ![t] = "failed"]
            /\ last' = Ev("TickFail", t)
            /\ roomList' = <<ErrorCard>>
            /\ roomsSrc' = Src("error", 0)
            /\ rendered' = rendered
    /\ UNCHANGED <<envVars, joinVars, linkVars, mainPc, save, ld, timerOn, nTicks, loading,
                   bannerVars, lastResolved>>
TickResponseClearsTimer(t, outcome) ==
    /\ Settled
    /\ ticks[t] = "fetch"
    /\ IF outcome = "ok"
       THEN /\ ticks' = [ticks EXCEPT ![t] = "json"]
            /\ last' = Ev("TickResponse", t)
            /\ timerOn' = timerOn
       ELSE /\ ticks' = [ticks EXCEPT ![t] = "failed"]
            /\ last' = Ev("TickFail", t)
            /\ timerOn' = FALSE
    /\ UNCHANGED <<envVars, joinVars, linkVars, mainPc, save, ld, nTicks, loading,
                   bannerVars, roomVars, lastResolved>>
TickResponse(t, outcome) ==
    /\ Settled
    /\ ticks[t] = "fetch"
    /\ IF outcome = "ok"
       THEN /\ ticks' = [ticks EXCEPT ![t] = "json"]
            /\ last' = Ev("TickResponse", t)
       ELSE /\ ticks' = [ticks EXCEPT ![t] = "failed"]
            /\ last' = Ev("TickFail", t)
    /\ UNCHANGED <<envVars, joinVars, linkVars, mainPc, save, ld, timerOn, nTicks, loading,
                   bannerVars, roomVars, lastResolved>>

\* the callback resumes with the parsed body: renderRooms(rooms); when it
\* raises, #room-list keeps the cards built so far and the catch logs it
TickRenderLatestIssued(t, rooms) ==
    IF roomsSrc.kind = "tick" /\ roomsSrc.n > t
    THEN /\ UNCHANGED roomVars
         /\ last' = Ev("TickRender", t)
    ELSE /\ roomList' = renderRooms(rooms).list
         /\ roomsSrc' = Src("tick", t)
         /\ rendered' = rooms
         /\ last' = Ev(IF renderRooms(rooms).raised THEN "TickRaise" ELSE "TickRender", t)
TickRender(t, rooms) ==
    /\ roomList' = renderRooms(rooms).list
    /\ roomsSrc' = Src("tick", t)
    /\ rendered' = rooms
    /\ last' = Ev(IF renderRooms(rooms).raised THEN "TickRaise" ELSE "TickRender", t)

\* fetchJSON: res.json() resolves with the body or rejects
TickJson(t) ==
    /\ Settled
    /\ ticks[t] = "json"
    /\ \/ \E rooms \in RoomLists :
             /\ TickRender(t, rooms)
             /\ ticks' = [ticks EXCEPT ![t] = "done"]
             /\ lastResolved' = Src("tick", t)
       \/ /\ last' = Ev("TickFail", t)
          /\ ticks' = [ticks EXCEPT ![t] = "failed"]
          /\ UNCHANGED <<roomVars, lastResolved>>
    /\ UNCHANGED <<envVars, joinVars, linkVars, mainPc, save, ld, timerOn, nTicks, loading, bannerVars>>

\* ------------------------------------------------------------ environment
\* the page is opened again: module state and DOM start over, the cache
\* slot stays
Reload ==
    /\ Settled
    /\ mainPc # "start"
    /\ loads < MaxLoads
    /\ loads' = loads + 1
    /\ mainPc' = "start"
    /\ save' = NoSave
    /\ ld' = IdleLoad
    /\ timerOn' = FALSE
    /\ nTicks' = 0
    /\ ticks' = [t \in 1..MaxTicks |-> "idle"]
    /\ roomList' = <<>>
    /\ bannerContainer' = <<>>
    /\ loading' = FALSE
    /\ swiperInstance' = FALSE
    /\ swiperLog' = <<0, 0>>
    /\ roomsSrc' = NoSrc
    /\ bannersSrc' = NoSrc
    /\ rendered' = <<>>
    /\ lastResolved' = NoSrc
    /\ last' = Ev("Reload", 0)
    /\ posts' = <<>>
    /\ joinLog' = <<>>
    /\ UNCHANGED <<now, localStorage, telegram, linkVars>>

\* the clock advances; it is read when the handler starts (the freshness
\* test) and when the entry is written (its timestamp)
Elapse ==
    /\ mainPc \in {"start", "saveRJson"}
    /\ \E t \in Times :
         /\ t > now
         /\ now' = t
    /\ last' = Ev("Elapse", 0)
    /\ UNCHANGED <<localStorage, loads, joinVars, linkVars, mainPc, save, ld, timerOn, nTicks, ticks,
                   loading, bannerVars, roomVars, lastResolved>>

Next ==
    \/ LoadCachedBanners
    \/ LoadCachedRooms
    \/ LoadUncached
    \/ LoadMalformedBanners
    \/ LoadMalformedCatch
    \/ \E which \in {"b", "r"}, outcome \in FetchOutcomes : LoadDataResponse(which, outcome)
    \/ LoadDataBannersJson
    \/ LoadDataRoomsJson
    \/ LoadDataRooms
    \/ SaveFetchBanners
    \/ \E outcome \in FetchOutcomes : SaveBannersResponse(outcome)
    \/ \E outcome \in FetchOutcomes : SaveRoomsResponse(outcome)
    \/ SaveBannersJson
    \/ SaveRoomsJson
    \/ StartAutoRefresh
    \/ TimerFire
    \/ \E t \in 1..MaxTicks, outcome \in FetchOutcomes : TickResponse(t, outcome)
    \/ \E t \in 1..MaxTicks : TickJson(t)
    \/ Reload
    \/ Elapse

Spec == Init /\ [][Next]_vars

\* The event loop runs a runnable continuation whenever there is one, every
\* request is eventually answered or rejected, and the interval keeps firing.
FairSpec == Spec /\ WF_vars(Next)

\* ---------------------------------------------------------------- joinGame
\* rooms with a join URL, as rendered when a join button is clicked
JoinRoomA == [id |-> 3, room_name |-> "Table C", status |-> "open",
              room_url |-> "https://pokernow.club/games/c"]
JoinRoomB == [id |-> 4, room_name |-> "Table D", status |-> "full",
              room_url |-> "https://pokernow.club/games/d"]
JoinRooms == <<JoinRoomA, JoinRoomB>>

OpenEvent(j, room) ==
    [call |-> j, kind |-> "open",
     via |-> IF telegram = "none" THEN "window.open" ELSE "tg.openLink",
     url |-> room.room_url]
PostEvent(j, room) ==
    [call |-> j, kind |-> "post", via |-> "fetchJSON", url |-> room.id]

\* a click on the join button of a card: the link is opened, then, when
\* currentUser is set, the tracking POST is issued and awaited
JoinGamePostsFirst(i) ==
    /\ Settled
    /\ Len(posts) < MaxJoins
    /\ i \in 1..Len(roomList)
    /\ roomList[i].cls = "room-card"
    /\ LET room == rendered[i]
           j == Len(posts) + 1
       IN  /\ joinLog' = IF telegram = "user"
                          THEN joinLog \o <<PostEvent(j, room), OpenEvent(j, room)>>
                          ELSE Append(joinLog, OpenEvent(j, room))
           /\ posts' = Append(posts,
                  [room |-> room.id, url |-> room.room_url,
                   st |-> IF telegram = "user" THEN "pending" ELSE "skipped"])
           /\ last' = Ev("JoinGame", j)
    /\ UNCHANGED <<envVars, linkVars, telegram, mainPc, save, ld, timerOn, nTicks, ticks,
                   loading, bannerVars, roomVars, lastResolved>>
JoinGame(i) ==
    /\ Settled
    /\ Len(posts) < MaxJoins
    /\ i \in 1..Len(roomList)
    /\ roomList[i].cls = "room-card"
    /\ LET room == rendered[i]
           j == Len(posts) + 1
       IN  /\ joinLog' = IF telegram = "user"
                          THEN joinLog \o <<OpenEvent(j, room), PostEvent(j, room)>>
                          ELSE Append(joinLog, OpenEvent(j, room))
           /\ posts' = Append(posts,
                  [room |-> room.id, url |-> room.room_url,
                   st |-> IF telegram = "user" THEN "pending" ELSE "skipped"])
           /\ last' = Ev("JoinGame", j)
    /\ UNCHANGED <<envVars, linkVars, telegram, mainPc, save, ld, timerOn, nTicks, ticks,
                   loading, bannerVars, roomVars, lastResolved>>

\* fetchJSON of the tracking POST: the response arrives; a rejection or a
\* response that is not ok raises into joinGame's catch, which logs it
JoinResponse(j, outcome) ==
    /\ Settled
    /\ j \in 1..Len(posts)
    /\ posts[j].st = "pending"
    /\ posts' = [posts EXCEPT ![j].st = IF outcome = "ok" THEN "json" ELSE "failed"]
    /\ last' = Ev(IF outcome = "ok" THEN "JoinResponse" ELSE "JoinFail", j)
    /\ UNCHANGED <<envVars, linkVars, telegram, joinLog, mainPc, save, ld, timerOn, nTicks,
                   ticks, loading, bannerVars, roomVars, lastResolved>>

\* fetchJSON: res.json() resolves (the value is dropped) or rejects (caught)
JoinJson(j) ==
    /\ Settled
    /\ j \in 1..Len(posts)
    /\ posts[j].st = "json"
    /\ \/ posts' = [posts EXCEPT ![j].st = "done"] /\ last' = Ev("JoinDone", j)
       \/ posts' = [posts EXCEPT ![j].st = "failed"] /\ last' = Ev("JoinFail", j)
    /\ UNCHANGED <<envVars, linkVars, telegram, joinLog, mainPc, save, ld, timerOn, nTicks,
                   ticks, loading, bannerVars, roomVars, lastResolved>>

\* a loaded page showing JoinRooms, the timer running, nothing in flight;
\* initTelegram has found no Telegram object, one without a user, or a user
JoinInit ==
    /\ LinkIdle
    /\ telegram \in {"none", "anon", "user"}
    /\ posts = <<>>
    /\ joinLog = <<>>
    /\ now = 0
    /\ localStorage = NoCache
    /\ loads = 1
    /\ mainPc = "running"
    /\ save = NoSave
    /\ ld = [IdleLoad EXCEPT !.pc = "done", !.b = "ok", !.r = "ok"]
    /\ timerOn = TRUE
    /\ nTicks = 0
    /\ ticks = [t \in 1..MaxTicks |-> "idle"]
    /\ roomList = renderRooms(JoinRooms).list
    /\ bannerContainer = <<PlaceholderSlide>>
    /\ loading = FALSE
    /\ swiperInstance = TRUE
    /\ swiperLog = <<1, 0>>
    /\ roomsSrc = Src("ld", 0)
    /\ bannersSrc = Src("ld", 0)
    /\ rendered = JoinRooms
    /\ lastResolved = Src("ld", 0)
    /\ last = Ev("LoadDataRooms", 0)

JoinNext ==
    \/ \E i \in 1..Len(JoinRooms) : JoinGame(i)
    \/ \E j \in 1..MaxJoins, outcome \in FetchOutcomes : JoinResponse(j, outcome)
    \/ \E j \in 1..MaxJoins : JoinJson(j)

JoinSpec == JoinInit /\ [][JoinNext]_vars

\* ------------------------------------------------ URL-parameter propagation
\* Strings are sequences of characters.  href.startsWith('/') is also what
\* the selector a[href^="/"] tests; href.includes('?').
startsWith(s, c) == Len(s) > 0 /\ s[1] = c
includes(s, c) == \E i \in 1..Len(s) : s[i] = c
IndexOf(s, c) == CHOOSE i \in 1..Len(s) : s[i] = c /\ \A j \in 1..(i - 1) : s[j] # c

\* the serializer of URLSearchParams percent-encodes these characters
PercentEncode(s) ==
    [i \in 1..Len(s) |->
        CASE s[i] = "?" -> "%3F"
          [] s[i] = "/" -> "%2F"
          [] s[i] = "=" -> "%3D"
          [] OTHER -> s[i]]

\* the pieces of a query between "&", the empty ones dropped
RECURSIVE Pieces(_)
Pieces(q) ==
    IF ~includes(q, "&")
    THEN IF q = <<>> THEN <<>> ELSE <<q>>
    ELSE LET i == IndexOf(q, "&")
             head == SubSeq(q, 1, i - 1)
         IN  (IF head = <<>> THEN <<>> ELSE <<head>>) \o Pieces(SubSeq(q, i + 1, Len(q)))

\* name=value of one piece: split at the first "=", a missing value is empty
SerializePair(piece) ==
    IF includes(piece, "=")
    THEN LET i == IndexOf(piece, "=")
         IN  PercentEncode(SubSeq(piece, 1, i - 1)) \o <<"=">> \o
             PercentEncode(SubSeq(piece, i + 1, Len(piece)))
    ELSE PercentEncode(piece) \o <<"=">>

RECURSIVE JoinPairs(_)
JoinPairs(pieces) ==
    IF Len(pieces) = 0 THEN <<>>
    ELSE IF Len(pieces) = 1 THEN SerializePair(pieces[1])
    ELSE SerializePair(pieces[1]) \o <<"&">> \o JoinPairs(Tail(pieces))

\* new URLSearchParams(window.location.search).toString()
getUrlParams(s) ==
    JoinPairs(Pieces(IF startsWith(s, "?") THEN Tail(s) ELSE s))

\* nodes inserted per page
MaxNodes == 2

\* window.location.search: no query, a bare "?", one pair, a name without a
\* value followed by a value that needs encoding
Searches ==
    { <<>>, <<"?">>, <<"?", "t", "=", "1">>, <<"?", "a", "&", "b", "=", "?">> }

\* href values: internal, internal with a query, external
HrefRooms == <<"/", "r">>
HrefProfile == <<"/", "p", "?", "u", "=", "7">>
HrefExternal == <<"h", ":", "/", "/", "x">>
Hrefs == {HrefRooms, HrefProfile, HrefExternal}

\* an inserted node: an anchor, an element with anchors below it (kids are
\* their hrefs), or a text node
Anchor(href) == [tag |-> "A", href |-> href, kids |-> <<>>]
Container(kids) == [tag |-> "DIV", href |-> <<>>, kids |-> kids]
TextNode == [tag |-> "#text", href |-> <<>>, kids |-> <<>>]
Nodes ==
    {Anchor(h) : h \in Hrefs}
        \cup {Container(<<HrefRooms, HrefProfile>>), Container(<<HrefExternal>>), TextNode}

\* href + '?' + paramsString
WithParams(href, paramsString) == href \o <<"?">> \o paramsString

\* addParamsToLinks: every a[href^="/"] of the document whose href has no
\* '?' gets the parameters; nothing is done when there are none
addParamsToLinksNoSkip(d, paramsString) ==
    IF paramsString = <<>> THEN d
    ELSE [i \in 1..Len(d) |->
            [tag |-> d[i].tag,
             href |-> IF d[i].tag = "A" /\ startsWith(d[i].href, "/")
                      THEN WithParams(d[i].href, paramsString)
                      ELSE d[i].href,
             kids |-> [k \in 1..Len(d[i].kids) |->
                         IF startsWith(d[i].kids[k], "/")
                         THEN WithParams(d[i].kids[k], paramsString)
                         ELSE d[i].kids[k]]]]
addParamsToLinks(d, paramsString) ==
    IF paramsString = <<>> THEN d
    ELSE [i \in 1..Len(d) |->
            [tag |-> d[i].tag,
             href |-> IF d[i].tag = "A" /\ startsWith(d[i].href, "/")
                         /\ ~includes(d[i].href, "?")
                      THEN WithParams(d[i].href, paramsString)
                      ELSE d[i].href,
             kids |-> [k \in 1..Len(d[i].kids) |->
                         IF startsWith(d[i].kids[k], "/") /\ ~includes(d[i].kids[k], "?")
                         THEN WithParams(d[i].kids[k], paramsString)
                         ELSE d[i].kids[k]]]]

\* the observer's work on one added node: nodeType 1 only; the node itself
\* when it is an anchor, then the anchors below it
ObserveNode(node, paramsString) ==
    IF node.tag = "#text" THEN node
    ELSE [tag |-> node.tag,
          href |-> IF node.tag = "A" /\ startsWith(node.href, "/")
                      /\ ~includes(node.href, "?")
                   THEN WithParams(node.href, paramsString)
                   ELSE node.href,
          kids |-> [k \in 1..Len(node.kids) |->
                      IF startsWith(node.kids[k], "/") /\ ~includes(node.kids[k], "?")
                      THEN WithParams(node.kids[k], paramsString)
                      ELSE node.kids[k]]]

\* the MutationObserver callback over the delivered records
observerCallback(d, recs, paramsString) ==
    IF paramsString = <<>> THEN d
    ELSE [i \in 1..Len(d) |-> IF i \in recs THEN ObserveNode(d[i], paramsString) ELSE d[i]]

\* the script runs: addParamsToLinks now or at DOMContentLoaded, observe now
\* or at DOMContentLoaded
RunScript ==
    /\ ~scriptRan
    /\ scriptRan' = TRUE
    /\ IF readyState = "loading"
       THEN /\ listeners' = [addParams |-> TRUE, observe |-> ~hasBody]
            /\ UNCHANGED <<doc, visited>>
       ELSE /\ listeners' = [addParams |-> FALSE, observe |-> ~hasBody]
            /\ doc' = addParamsToLinks(doc, getUrlParams(search))
            /\ visited' = 1..Len(doc)
    /\ observing' = hasBody
    /\ last' = Ev("RunScript", 0)
    /\ UNCHANGED <<search, readyState, hasBody, origDoc, records>>
    /\ UNCHANGED <<envVars, joinVars, mainPc, save, ld, timerOn, nTicks, ticks, loading,
                   bannerVars, roomVars, lastResolved>>

\* the parser reaches <body>
ParseBody ==
    /\ readyState = "loading"
    /\ ~hasBody
    /\ hasBody' = TRUE
    /\ last' = Ev("ParseBody", 0)
    /\ UNCHANGED <<search, readyState, scriptRan, listeners, observing, doc, origDoc,
                   records, visited>>
    /\ UNCHANGED <<envVars, joinVars, mainPc, save, ld, timerOn, nTicks, ticks, loading,
                   bannerVars, roomVars, lastResolved>>

\* the parser or a script inserts a node under the body; an observer that
\* is observing gets a record for it
InsertNode(node) ==
    /\ hasBody
    /\ Len(doc) < MaxNodes
    /\ doc' = Append(doc, node)
    /\ origDoc' = Append(origDoc, node)
    /\ records' = IF observing THEN records \cup {Len(doc) + 1} ELSE records
    /\ last' = Ev("InsertNode", Len(doc) + 1)
    /\ UNCHANGED <<search, readyState, hasBody, scriptRan, listeners, observing, visited>>
    /\ UNCHANGED <<envVars, joinVars, mainPc, save, ld, timerOn, nTicks, ticks, loading,
                   bannerVars, roomVars, lastResolved>>

\* the records are delivered in a microtask
ObserverCallback ==
    /\ records # {}
    /\ doc' = observerCallback(doc, records, getUrlParams(search))
    /\ visited' = visited \cup records
    /\ records' = {}
    /\ last' = Ev("ObserverCallback", 0)
    /\ UNCHANGED <<search, readyState, hasBody, scriptRan, listeners, observing, origDoc>>
    /\ UNCHANGED <<envVars, joinVars, mainPc, save, ld, timerOn, nTicks, ticks, loading,
                   bannerVars, roomVars, lastResolved>>

\* DOMContentLoaded: the script's listeners run in the order they were added
DOMContentLoaded ==
    /\ readyState = "loading"
    /\ hasBody
    /\ records = {}
    /\ readyState' = "interactive"
    /\ IF listeners.addParams
       THEN /\ doc' = addParamsToLinks(doc, getUrlParams(search))
            /\ visited' = 1..Len(doc)
       ELSE UNCHANGED <<doc, visited>>
    /\ observing' = (observing \/ listeners.observe)
    /\ listeners' = NoListeners
    /\ last' = Ev("DOMContentLoaded", 0)
    /\ UNCHANGED <<search, hasBody, scriptRan, origDoc, records>>
    /\ UNCHANGED <<envVars, joinVars, mainPc, save, ld, timerOn, nTicks, ticks, loading,
                   bannerVars, roomVars, lastResolved>>

\* the page when the script is about to run: still parsing the head, parsing
\* the body, or loaded; what the body already holds has raised no record
LinkInit ==
    /\ search \in Searches
    /\ readyState \in {"loading", "complete"}
    /\ hasBody \in BOOLEAN
    /\ readyState = "complete" => hasBody
    /\ scriptRan = FALSE
    /\ listeners = NoListeners
    /\ observing = FALSE
    /\ doc \in {<<>>} \cup (IF hasBody THEN {<<n>> : n \in Nodes} ELSE {})
    /\ origDoc = doc
    /\ records = {}
    /\ visited = {}
    /\ telegram = "none"
    /\ posts = <<>>
    /\ joinLog = <<>>
    /\ now = 0
    /\ localStorage = NoCache
    /\ loads = 1
    /\ last = Ev("none", 0)
    /\ PageInit

LinkNext ==
    \/ RunScript
    \/ ParseBody
    \/ \E node \in Nodes : InsertNode(node)
    \/ ObserverCallback
    \/ DOMContentLoaded

LinkSpec == LinkInit /\ [][LinkNext]_vars

TypeOK ==
    /\ now \in Times
    /\ loads \in 1..MaxLoads
    /\ mainPc \in {"start", "cacheBanners", "cacheMalformed", "awaitLoad", "saveB", "saveR",
                    "saveBJson", "saveRJson", "returned", "running"}
    /\ ld.pc \in {"idle", "fetching", "bjson", "rjson", "bannersShown", "done"}
    /\ nTicks \in 0..MaxTicks
    /\ \A t \in 1..MaxTicks : ticks[t] \in {"idle", "fetch", "json", "done", "failed"}
    /\ loading \in BOOLEAN
    /\ swiperInstance \in BOOLEAN
    /\ timerOn = (mainPc = "running")

\* ------------------------------------------------------------------ claims
ShowsRoomData ==
    /\ Len(roomList) > 0
    /\ \A i \in 1..Len(roomList) : roomList[i].cls = "room-card"
\* loadData was called without await (the background refresh of a cache hit)
Background == ld.pc \notin {"idle", "done"} /\ mainPc # "awaitLoad"

\* C1, as stated: a load that serves a fresh entry issues no network call,
\* and a load that finds the entry 5 minutes old or older renders nothing
\* from it and fetches.
C1_AsStated ==
    /\ (mainPc = "returned" /\ roomsSrc = Src("cache", 0))
          => (ld.b = "none" /\ ld.r = "none")
    /\ (last.op = "LoadUncached")
          => (ld.b = "pending" /\ ld.r = "pending" /\ roomsSrc = NoSrc)

\* C1, amended: an entry younger than 5 minutes is rendered (banners, then
\* rooms) before the load has issued any request, and only then are both
\* endpoints fetched; an entry 5 minutes old or older (exactly 5 minutes
\* included) is not rendered and both endpoints are fetched instead.
C1_FreshServedBeforeFetch ==
    [][ /\ (mainPc = "start" /\ mainPc' # "start" /\ localStorage.present) =>
              IF now - localStorage.timestamp < 5 * 60 * 1000
              THEN /\ bannerContainer' =
                         displayBanners(localStorage.data.banners).container
                   /\ roomList' = roomList
                   /\ ld'.b = "none" /\ ld'.r = "none"
                   /\ mainPc' = "cacheBanners"
              ELSE /\ bannerContainer' = bannerContainer
                   /\ roomList' = roomList
                   /\ ld'.b = "pending" /\ ld'.r = "pending"
        /\ (mainPc = "cacheBanners" /\ mainPc' # "cacheBanners") =>
              /\ roomList' = renderRooms(localStorage.data.rooms).list
              /\ ld.b = "none" /\ ld.r = "none"
              /\ ld'.b = "pending" /\ ld'.r = "pending"
      ]_vars

\* an entry one millisecond short of 5 minutes old has been served
C1_Witness ==
    /\ mainPc = "returned"
    /\ roomsSrc = Src("cache", 0)
    /\ localStorage.present
    /\ now - localStorage.timestamp = CACHE_DURATION - 1
    /\ roomList = renderRooms(localStorage.data.rooms).list
    /\ ld.r = "pending"

\* C2, as stated: after a cache hit loadData is called and not awaited;
\* when that background refresh succeeds it re-renders banners and rooms and
\* writes the fetched data to the cache slot with a new timestamp.
C2_AsStated ==
    [][ /\ (mainPc = "cacheBanners" /\ mainPc' = "returned")
              => (ld'.b = "pending" /\ ld'.r = "pending")
        /\ (Background /\ ld.pc = "bannersShown" /\ last'.op = "LoadDataRooms")
              => /\ bannerContainer' = displayBanners(ld.banners).container
                 /\ roomList' = renderRooms(ld.rooms).list
                 /\ localStorage' = CacheEntry(ld.banners, ld.rooms, now)
      ]_vars

\* C2, amended: after a cache hit has been rendered both requests are
\* issued and loadDataWithCache returns without waiting (when rendering the
\* cached rooms raised it waits for loadData, as on a miss); the background
\* refresh, once both bodies are read, re-renders the banners and then the
\* rooms (the error card if a fetched record has no status); it never
\* writes the cache slot.
C2_BackgroundRefreshRendersOnly ==
    [][ /\ (mainPc = "cacheBanners" /\ mainPc' # "cacheBanners") =>
              /\ ld'.b = "pending" /\ ld'.r = "pending"
              /\ mainPc' = IF renderRooms(localStorage.data.rooms).raised
                           THEN "awaitLoad" ELSE "returned"
        /\ (Background /\ ld.pc = "rjson" /\ ld'.pc = "bannersShown") =>
              bannerContainer' = displayBanners(ld.banners).container
        /\ (Background /\ ld.pc = "bannersShown") =>
              roomList' = IF renderRooms(ld.rooms).raised THEN <<ErrorCard>>
                          ELSE renderRooms(ld.rooms).list
        /\ Background => localStorage' = localStorage
      ]_vars

\* the background refresh has rendered lists that differ from the entry,
\* and the entry is still the old one
C2_Witness ==
    /\ last.op = "LoadDataRooms"
    /\ mainPc = "running"
    /\ roomsSrc = Src("ld", 0)
    /\ bannersSrc = Src("ld", 0)
    /\ localStorage.present
    /\ roomList # renderRooms(localStorage.data.rooms).list
    /\ bannerContainer # displayBanners(localStorage.data.banners).container

\* C3: on a cache miss whose fetches succeed, the entry that is persisted
\* holds the lists that were rendered, with the time of the write; what is
\* persisted never differs from what is displayed.
C3_PersistedIsDisplayed ==
    (last.op = "SaveCache" /\ roomsSrc = Src("ld", 0) /\ bannersSrc = Src("ld", 0))
       => /\ localStorage.present
          /\ localStorage.timestamp = now
          /\ roomList = renderRooms(localStorage.data.rooms).list
          /\ bannerContainer = displayBanners(localStorage.data.banners).container

\* C4: whenever a rooms request is issued, the banners request of the same
\* pair is still in flight (the pair of loadData, the pair of the cache save).
C4_PairsIssuedTogether ==
    [][ /\ (ld.r = "none" /\ ld'.r = "pending") => ld'.b = "pending"
        /\ (save.r = "none" /\ save'.r = "pending") => save'.b = "pending"
      ]_vars

\* C5: a periodic tick whose rooms fetch fails (rejection, non-success
\* status, unreadable body) leaves #room-list exactly as it was.
C5_FailedTickKeepsRoomList ==
    [][ \A t \in 1..MaxTicks :
          (ticks[t] \in {"fetch", "json"} /\ ticks'[t] = "failed")
             => roomList' = roomList
      ]_vars

\* a tick has just failed while the list showed room cards
C5_Witness ==
    /\ last.op = "TickFail"
    /\ ShowsRoomData

\* every loadData call and every interval callback of this page has finished
Quiescent ==
    /\ Settled
    /\ ld.pc \in {"idle", "done"}
    /\ \A t \in 1..MaxTicks : ticks[t] \notin {"fetch", "json"}

C7_NoRegression ==
    [][ (Background /\ roomsSrc.kind = "tick") => roomsSrc'.kind # "ld" ]_vars

\* C8: when #room-list shows room cards and a later fetch of the background
\* refresh or of a periodic tick fails, it still shows them afterwards.
C8_FailureKeepsLastGood ==
    [][ (ShowsRoomData /\ mainPc = "running" /\ last'.op \in {"LoadDataFail", "TickFail"})
           => roomList' = roomList
      ]_vars

\* C9: in loadData, when one endpoint's fetch fails and the other's
\* succeeds, the list that was fetched is still rendered.
C9_OtherEndpointStillRendered ==
    /\ (last.op = "LoadDataFail" /\ ld.r = "ok" /\ ld.b \in {"notok", "neterr"})
          => roomsSrc = Src("ld", 0)
    /\ (last.op = "LoadDataFail" /\ ld.b = "ok" /\ ld.r \in {"notok", "neterr"})
          => bannersSrc = Src("ld", 0)

\* C10: a render attempt leaves #room-list with its previous content or
\* with the complete rendering of the list it was given, and does not touch
\* #banner-container; a banner render does not touch #room-list.
RoomRenderOps ==
    {"LoadCachedRooms", "LoadCachedRaise", "LoadDataRooms", "LoadDataRaise",
     "TickRender", "TickRaise"}
C10_NeverHalfUpdated ==
    [][ /\ (last'.op \in RoomRenderOps) =>
              /\ \/ roomList' = roomList
                 \/ /\ ~renderRooms(rendered').raised
                    /\ roomList' = renderRooms(rendered').list
              /\ bannerContainer' = bannerContainer
        /\ (last'.op \in {"LoadCachedBanners", "LoadDataBanners"}) =>
              roomList' = roomList
      ]_vars

\* C11: the interval is never cleared by the program (only a new page load
\* starts over); a tick that fails or whose render raises changes no other
\* tick and leaves the timer on; every callback that fires issues a rooms
\* fetch; a tick whose body arrives renders it whatever earlier ticks did;
\* and eventually every interval of the page that stays open has fired and
\* its fetch has been rendered or logged as failed, with the timer still on.
C11_TimerNeverStops ==
    /\ [][ /\ (timerOn /\ last'.op # "Reload") => timerOn'
           /\ (nTicks' # nTicks /\ last'.op # "Reload") =>
                 /\ nTicks' = nTicks + 1
                 /\ ticks' = [ticks EXCEPT ![nTicks + 1] = "fetch"]
           /\ \A t \in 1..MaxTicks :
                 (ticks[t] \in {"fetch", "json"} /\ ticks'[t] \in {"failed", "done"}) =>
                    /\ timerOn'
                    /\ nTicks' = nTicks
                    /\ \A u \in 1..MaxTicks : u # t => ticks'[u] = ticks[u]
                    /\ ticks'[t] = "done" =>
                          /\ roomsSrc' = Src("tick", t)
                          /\ roomList' = renderRooms(rendered').list
         ]_vars
    /\ <>( /\ timerOn
           /\ nTicks = MaxTicks
           /\ \A t \in 1..MaxTicks : ticks[t] \in {"done", "failed"} )

\* tick 1 failed, the later tick 2 was issued, answered and is displayed
C11_Witness ==
    /\ timerOn
    /\ ticks[1] = "failed"
    /\ ticks[2] = "done"
    /\ roomsSrc = Src("tick", 2)
    /\ ShowsRoomData
    /\ roomList = renderRooms(rendered).list

\* C12: a periodic tick (the callback firing, its response, its render or
\* its failure) issues no banners request and leaves #banner-container, the
\* carousel handle and the cache slot unchanged; firing issues exactly the
\* rooms fetch of that tick.
TickOps == {"TimerFire", "TickResponse", "TickFail", "TickRender", "TickRaise"}
C12_TickFetchesOnlyRooms ==
    [][ (last'.op \in TickOps) =>
           /\ ld' = ld
           /\ save' = save
           /\ bannerContainer' = bannerContainer
           /\ swiperInstance' = swiperInstance
           /\ swiperLog' = swiperLog
           /\ localStorage' = localStorage
           /\ (last'.op = "TimerFire") =>
                 ticks' = [ticks EXCEPT ![last'.n] = "fetch"]
      ]_vars

\* a tick has rendered rooms other than the cached ones; banners, carousel
\* and cache entry are those of the cache hit that preceded it
C12_Witness ==
    /\ last.op = "TickRender"
    /\ localStorage.present
    /\ rendered # localStorage.data.rooms
    /\ bannersSrc = Src("cache", 0)
    /\ bannerContainer = displayBanners(localStorage.data.banners).container
    /\ swiperLog = <<1, 0>>

\* C13: across the banner renders of a page (from the cache, from loadData
\* awaited or in the background) the carousel is constructed at most once:
\* the first render constructs it, every later one calls update() on it.
BannerRenderOps == {"LoadCachedBanners", "LoadDataBanners"}
C13_CarouselConstructedOnce ==
    [][ /\ swiperLog'[1] <= 1
        /\ (last'.op \in BannerRenderOps) =>
              /\ swiperInstance'
              /\ swiperLog' = IF swiperInstance
                              THEN <<1, swiperLog[2] + 1>>
                              ELSE <<1, 0>>
        /\ (last'.op \notin BannerRenderOps \cup {"Reload"}) =>
              (swiperLog' = swiperLog /\ swiperInstance' = swiperInstance)
      ]_vars

\* the cache render constructed the carousel, the background refresh updated it
C13_Witness ==
    /\ bannersSrc = Src("ld", 0)
    /\ mainPc = "running"
    /\ swiperInstance
    /\ swiperLog = <<1, 1>>

\* the steps after which #room-list is what renderRooms left (loadData's
\* catch overwrites it when the render raised)
\* C14: after renderRooms(rooms) #room-list holds, for an empty input,
\* exactly the one placeholder and no room card, and for an input of N > 0
\* records exactly N room cards, one per record in input order, and no
\* placeholder, whatever it held before.
RenderResultOps == RoomRenderOps \ {"LoadDataRaise"}
C14_RenderReplacesList ==
    (last.op \in RenderResultOps) =>
        IF Len(rendered) = 0
        THEN roomList = <<EmptyCard>>
        ELSE /\ Len(roomList) = Len(rendered)
             /\ \A i \in 1..Len(rendered) :
                   /\ roomList[i].cls = "room-card"
                   /\ roomList[i].name = Interp(rendered[i], "room_name")

\* C15: after renderRooms(rooms) every record has its card, showing 0 for
\* an absent current_players, 10 for an absent max_players, a dash for an
\* absent blinds, min_buyin or game_time, and the status in upper case;
\* the record {id:1, room_name:"Table A", status:"open", current_players:3}
\* shows "Table A", "OPEN" and 3 / 10.
HasField(rec, f) == f \in DOMAIN rec
C15_DefaultsApplied ==
    (last.op \in RenderResultOps) =>
        \A i \in 1..Len(rendered) :
            /\ i <= Len(roomList)
            /\ roomList[i].cls = "room-card"
            /\ LET room == rendered[i]
                   card == roomList[i]
               IN  /\ card.players[1] = IF HasField(room, "current_players")
                                         THEN room.current_players ELSE 0
                   /\ card.players[2] = IF HasField(room, "max_players")
                                         THEN room.max_players ELSE 10
                   /\ ~HasField(room, "blinds") => card.blinds = "-"
                   /\ ~HasField(room, "min_buyin") => card.min_buyin = "-"
                   /\ ~HasField(room, "game_time") => card.game_time = "-"
                   /\ card.status \in {"OPEN", "FULL"}
                   /\ (room = Room1) =>
                         /\ card.name = "Table A"
                         /\ card.status = "OPEN"
                         /\ card.players = <<3, 10>>

\* C16: a banner render replaces the slides of #banner-container whatever
\* it held: for the empty list exactly the one placeholder slide naming
\* the contact channel, for N > 0 banners exactly N slides in input order;
\* and when no carousel exists yet (the first banner render) the call
\* constructs it, also for the empty list, instead of updating.
C16_BannerRenderReplacesSlides ==
    [][ (last'.op \in BannerRenderOps) =>
          LET banners == IF last'.op = "LoadCachedBanners"
                         THEN localStorage.data.banners ELSE ld'.banners
          IN  /\ IF Len(banners) = 0
                 THEN /\ bannerContainer' = <<PlaceholderSlide>>
                      /\ bannerContainer'[1].placeholder
                      /\ bannerContainer'[1].contact = "@royalswap_kr"
                 ELSE /\ Len(bannerContainer') = Len(banners)
                      /\ \A i \in 1..Len(banners) :
                            /\ ~bannerContainer'[i].placeholder
                            /\ bannerContainer'[i] = BannerSlide(banners[i])
              /\ ~swiperInstance => (swiperInstance' /\ swiperLog' = <<1, 0>>)
      ]_vars

\* the banners endpoint returned [] and this was the first banner render
C16_Witness ==
    /\ last.op = "LoadDataBanners"
    /\ ld.banners = <<>>
    /\ bannerContainer = <<PlaceholderSlide>>
    /\ swiperLog = <<1, 0>>

\* C17: a stored value that is not an entry (text that does not parse, a
\* non-object, no numeric timestamp, no banner list or no room list) is
\* treated as a miss: the handler goes on, without raising, to the awaited
\* loadData, which issues both requests, and when both bodies have arrived
\* the fetched banners are rendered and renderRooms is given the fetched
\* rooms.
StoredMalformed == ~localStorage.present /\ localStorage.stored \in MalformedKinds
C17_MalformedCacheIsMiss ==
    [][ StoredMalformed =>
          /\ (mainPc = "start" /\ mainPc' # "start") =>
                \/ mainPc' = "cacheMalformed" /\ ld' = ld /\ roomList' = roomList
                \/ /\ mainPc' = "awaitLoad"
                   /\ ld'.pc = "fetching" /\ ld'.b = "pending" /\ ld'.r = "pending"
                   /\ roomList' = roomList
                   /\ bannerContainer' = bannerContainer
          /\ (mainPc = "cacheMalformed" /\ mainPc' # "cacheMalformed") =>
                /\ mainPc' = "awaitLoad"
                /\ ld'.pc = "fetching" /\ ld'.b = "pending" /\ ld'.r = "pending"
                /\ ~ShowsRoomData'
          /\ (mainPc = "awaitLoad" /\ ld.pc = "rjson" /\ ld'.pc = "bannersShown") =>
                bannerContainer' = displayBanners(ld'.banners).container
          /\ (mainPc = "awaitLoad" /\ ld.pc = "bannersShown") =>
                /\ rendered' = ld.rooms
                /\ ~renderRooms(ld.rooms).raised =>
                      roomList' = renderRooms(ld.rooms).list
          /\ (mainPc = "awaitLoad" /\ ld.pc = "done") => mainPc' = "saveB"
      ]_vars

\* the stored value had banners and no rooms: its banners were shown, the
\* catch ran, and the fetched lists have replaced them
C17_Witness ==
    /\ StoredMalformed
    /\ localStorage.stored = "norooms"
    /\ last.op = "LoadDataRooms"
    /\ mainPc = "awaitLoad"
    /\ roomsSrc = Src("ld", 0)
    /\ bannersSrc = Src("ld", 0)
    /\ swiperLog = <<1, 1>>

\* C18: when the awaited loadData of a load without a fresh entry has a
\* request rejected or answered not ok, #room-list holds exactly one
\* placeholder and no room card from then until loadDataWithCache returns,
\* the handler keeps going through the cache-saving block without raising,
\* and its next step after the return is startAutoRefresh (unless the page
\* is opened again first).
AwaitedPcs == {"awaitLoad", "saveB", "saveR", "saveBJson", "saveRJson", "returned"}
FetchFailed(l) == l.pc = "done" /\ ({l.b, l.r} \cap {"notok", "neterr"}) # {}
C18_FirstLoadFailureShowsPlaceholder ==
    [][ /\ (mainPc = "awaitLoad" /\ ld.pc = "fetching" /\ FetchFailed(ld')) =>
              /\ mainPc' = "awaitLoad"
              /\ Len(roomList') = 1
              /\ roomList'[1].cls = "welcome-card"
              /\ ~loading'
        /\ (mainPc \in AwaitedPcs /\ FetchFailed(ld) /\ last'.op # "Reload") =>
              /\ roomList' = <<ErrorCard>>
              /\ mainPc' \in (AwaitedPcs \ {"awaitLoad"}) \cup {"running"}
              /\ (mainPc = "returned") => (mainPc' = "running" /\ timerOn')
      ]_vars

\* first load, nothing stored: the rooms request was answered not ok, the
\* placeholder is shown and the timer has been started
C18_Witness ==
    /\ loads = 1
    /\ ~localStorage.present
    /\ mainPc = "running"
    /\ timerOn
    /\ nTicks = 0
    /\ FetchFailed(ld)
    /\ ld.r = "notok"
    /\ roomList = <<ErrorCard>>

\* C19: every joinGame call opens the clicked room's join URL exactly once,
\* before anything else it does and whatever becomes of the tracking call;
\* it issues the tracking POST, once, exactly when a current user is known;
\* a failed POST ends caught in that call; and no joinGame step changes
\* what the page displays.
EventsOf(j, kind) ==
    {e \in DOMAIN joinLog : joinLog[e].call = j /\ joinLog[e].kind = kind}
C19_JoinFireAndForget ==
    /\ \A j \in 1..Len(posts) :
          /\ Cardinality(EventsOf(j, "open")) = 1
          /\ \A e \in EventsOf(j, "open") :
                /\ joinLog[e].url = posts[j].url
                /\ \A f \in DOMAIN joinLog : joinLog[f].call = j => e <= f
          /\ Cardinality(EventsOf(j, "post")) = IF telegram = "user" THEN 1 ELSE 0
          /\ \A e \in EventsOf(j, "post") : joinLog[e].url = posts[j].room
          /\ posts[j].st = "skipped" <=> telegram # "user"
    /\ \A e \in DOMAIN joinLog : joinLog[e].call \in 1..Len(posts)
    /\ roomList = renderRooms(JoinRooms).list
    /\ bannerContainer = <<PlaceholderSlide>>
    /\ loading = FALSE

\* a known user joined two rooms: the first tracking POST failed, the second
\* is still in flight, both links were opened
C19_Witness ==
    /\ telegram = "user"
    /\ Len(posts) = 2
    /\ posts[1].st = "failed"
    /\ posts[2].st = "pending"
    /\ Len(joinLog) = 4
    /\ joinLog[1].kind = "open"
    /\ joinLog[3].kind = "open"

\* C20: on the path that awaits loadData, when that loadData failed to
\* fetch or to render, so that #room-list shows the error placeholder, the
\* rest of loadDataWithCache writes nothing to the cache slot.
C20_CacheSavedOnlyOnSuccess ==
    [][ (mainPc \in AwaitedPcs /\ ld.pc = "done" /\ roomsSrc = Src("error", 0))
           => localStorage' = localStorage
      ]_vars

\* C21: the cache slot changes only in the step that follows two ok
\* responses of the save block (and their two readable bodies); when a
\* request of the save block is rejected or answered with a status that is
\* not ok, or a body cannot be read, the slot keeps the value it had,
\* nothing else on the page changes, and loadDataWithCache returns to the
\* handler, which goes on to startAutoRefresh.
C21_CacheWrittenOnlyWhenBothOk ==
    [][ /\ (localStorage' # localStorage) =>
              /\ mainPc = "saveRJson"
              /\ save.b = "ok" /\ save.r = "ok"
              /\ last'.op = "SaveCache"
        /\ (last'.op = "SaveCache") =>
              /\ save.b = "ok" /\ save.r = "ok"
              /\ localStorage'.present
              /\ localStorage'.data.banners = save.banners
        /\ (last'.op = "SaveFail") =>
              /\ mainPc \in {"saveB", "saveR", "saveBJson", "saveRJson"}
              /\ localStorage' = localStorage
              /\ mainPc' = "returned"
              /\ UNCHANGED <<ld, timerOn, loading, bannerVars, roomVars>>
      ]_vars

\* a save block whose request failed has left an earlier entry in the slot
C21_Witness ==
    /\ last.op = "SaveFail"
    /\ mainPc = "returned"
    /\ localStorage.present

\* the handler is still inside loadDataWithCache, or has not called
\* startAutoRefresh yet
BeforeTimerPcs ==
    {"start", "cacheBanners", "cacheMalformed", "awaitLoad", "saveB", "saveR",
     "saveBJson", "saveRJson", "returned"}

\* C22: setInterval is called only once loadDataWithCache has returned, and
\* no interval callback has fetched before that.  When the load went
\* through `await loadData()`, the timer is created after loadData has
\* rendered (the rooms or the error placeholder), hidden the indicator, and
\* after the cache-saving block has ended, so no tick fetch precedes them.
\* When the load served a fresh entry, the timer is created while the two
\* requests of the unawaited loadData are still pending.
C22_TimerAfterInitialLoad ==
    /\ [](mainPc \in BeforeTimerPcs =>
             /\ ~timerOn
             /\ nTicks = 0
             /\ \A t \in 1..MaxTicks : ticks[t] = "idle")
    /\ [][ /\ (timerOn' /\ ~timerOn) =>
                /\ mainPc = "returned"
                /\ last.op \in {"SaveCache", "SaveFail", "LoadCachedRooms"}
                /\ (last.op \in {"SaveCache", "SaveFail"}) =>
                       /\ ld.pc = "done"
                       /\ roomsSrc.kind \in {"ld", "error"}
                       /\ ~loading
                       /\ save = NoSave
                /\ (last.op = "LoadCachedRooms") =>
                       /\ roomsSrc = Src("cache", 0)
                       /\ ld.pc = "fetching"
                       /\ ld.b = "pending" /\ ld.r = "pending"
           /\ (last'.op = "TimerFire") => (timerOn /\ mainPc = "running")
          ]_vars

\* served from the cache: the first tick's fetch is out while the background
\* refresh has not been answered
C22_Witness ==
    /\ timerOn
    /\ roomsSrc = Src("cache", 0)
    /\ ld.pc = "fetching"
    /\ ticks[1] = "fetch"

\* C23: the indicator is displayed by the step in which loadData starts
\* and by no other step; it is hidden by the step in which loadData ends,
\* whether the requests succeeded, one of them failed or renderRooms raised,
\* so it is hidden whenever loadData has finished; no step of an interval
\* callback changes it; and, every request being answered or rejected, the
\* page ends with loadData finished and the indicator hidden for good.
C23_LoadingShownThenHidden ==
    /\ [](ld.pc = "done" => ~loading)
    /\ [][ /\ (ld.pc = "idle" /\ ld'.pc # "idle") => loading'
           /\ (loading' /\ ~loading) => (ld.pc = "idle" /\ ld'.pc = "fetching")
           /\ (ld.pc # "done" /\ ld'.pc = "done") => (loading /\ ~loading')
           /\ (loading /\ ~loading') => (ld'.pc = "done" \/ last'.op = "Reload")
           /\ (last'.op \in TickOps) => loading' = loading
          ]_vars
    /\ <>[](ld.pc = "done" /\ ~loading)

\* renderRooms raised inside loadData and the indicator is hidden
C23_Witness ==
    /\ last.op = "LoadDataRaise"
    /\ ld.pc = "done"
    /\ ~loading

\* C24: with a non-empty parameter string, a link whose href starts with "/"
\* and has no "?" carries, once either routine has looked at it, its
\* original href followed by "?" and the parameters, exactly once; every
\* other link keeps its original href; no link is left waiting unless the
\* script, its DOMContentLoaded listener or a record delivery is still to
\* run; running either routine again over the document changes nothing;
\* with an empty parameter string no href is ever changed.
C24_ParamsAppendedOnce ==
    LET ps == getUrlParams(search)
        Due(o) == ps # <<>> /\ startsWith(o, "/") /\ ~includes(o, "?")
        Right(i, h, o) == IF i \in visited /\ Due(o)
                          THEN h = o \o <<"?">> \o ps
                          ELSE h = o
        all == 1..Len(doc)
    IN  /\ Len(doc) = Len(origDoc)
        /\ \A i \in all :
              /\ doc[i].tag = origDoc[i].tag
              /\ IF doc[i].tag = "A"
                 THEN Right(i, doc[i].href, origDoc[i].href)
                 ELSE doc[i].href = origDoc[i].href
              /\ Len(doc[i].kids) = Len(origDoc[i].kids)
              /\ \A k \in 1..Len(doc[i].kids) :
                    Right(i, doc[i].kids[k], origDoc[i].kids[k])
              /\ (i \notin visited) =>
                    (~scriptRan \/ listeners.addParams \/ i \in records)
        /\ (visited = all) =>
              /\ addParamsToLinks(doc, ps) = doc
              /\ observerCallback(doc, all, ps) = doc
        /\ addParamsToLinks(addParamsToLinks(doc, ps), ps) = addParamsToLinks(doc, ps)
        /\ observerCallback(observerCallback(doc, all, ps), all, ps)
              = observerCallback(doc, all, ps)
        /\ (ps = <<>>) => doc = origDoc

\* the page has parameters, the DOMContentLoaded listener has gone over the
\* whole document with the observer started, one link got the parameters
\* and a link that came with a query is as it was
C24_Witness ==
    /\ getUrlParams(search) # <<>>
    /\ readyState = "interactive"
    /\ observing
    /\ records = {}
    /\ last.op = "DOMContentLoaded"
    /\ visited = 1..Len(doc)
    /\ \E i, j \in 1..Len(doc) :
          /\ origDoc[i] = Anchor(HrefRooms)
          /\ doc[i].href # HrefRooms
          /\ origDoc[j] = Anchor(HrefProfile)
          /\ doc[j] = origDoc[j]

====
